---- MODULE Spec2Model ----
(***************************************************************************)
(* Chess tournament core: Match, Round, Tournament (score ledger, round    *)
(* lifecycle) and the Swiss pairing helper.                                *)
(*                                                                         *)
(* Scores are counted in half points: 0 is 0.0, 1 is 0.5, 2 is 1.0, so the *)
(* Python floats 0, 0.5 and 1 and their sums are exact integers here.      *)
(* An Optional value is a sequence of length at most one (<<>> is None).   *)
(***************************************************************************)
EXTENDS Integers, Sequences, FiniteSets, TLC

VARIABLES
    players,           \* Tournament.players: roster, a list of national ids
    player_scores,     \* Tournament.player_scores: national id -> half points
    number_of_rounds,  \* Tournament.number_of_rounds
    current_round,     \* Tournament.current_round
    rounds,            \* Tournament.rounds (or the Round objects under test)
    _is_finished,      \* Tournament._is_finished
    now,               \* the wall clock read by get_current_timestamp
    pairs,             \* Optional result of the last generate_pairs call
    returned,          \* the list returned by the last query (ranking, findings)
    last               \* the last call made: its name, arguments and outcome

vars == <<players, player_scores, number_of_rounds, current_round, rounds,
          _is_finished, now, pairs, returned, last>>

----------------------------------------------------------------------------
(* Bounds of the model *)

\* participants known to the surrounding application
Keys == {"A", "B", "C", "D"}

\* rank of (last_name, first_name) in the ordering of the names; C and D
\* are two different participants who carry the same name
NameRank == [k \in Keys |-> CASE k = "A" -> 1 [] k = "B" -> 2 [] OTHER -> 3]

\* largest scheduled round count tried
MaxRounds == 2
\* largest number of matches put into one round by direct add_match calls
MaxMatches == 2
\* the clock stops advancing here
MaxTime == 2
\* largest ledger entry (half points) drawn for a pairing input
MaxInitScore == 1
\* ledger entries are not pushed beyond this (half points)
MaxLedger == 4

\* participants handed to Match(p1, p2) when a Round is driven on its own
MatchKeys == {"A", "B"}

\* scores passed to set_result / add_score_to_player, in half points:
\* -0.5, 0, 0.5, 1, 1.5
ScoreInputs == {0 - 1, 0, 1, 2, 3}

\* results entered while a tournament is played: the three results of a game,
\* 1-1, and 1.5 against -0.5
ResultInputs == {<<2, 0>>, <<0, 2>>, <<1, 1>>, <<2, 2>>, <<3, 0 - 1>>}

----------------------------------------------------------------------------
(* Helpers on sequences *)

Range(s) == {s[i] : i \in 1..Len(s)}

RemoveAt(s, i) == SubSeq(s, 1, i - 1) \o SubSeq(s, i + 1, Len(s))

ReplaceAt(s, i, x) == [s EXCEPT ![i] = x]

RECURSIVE SumOver(_, _)
SumOver(f, S) ==
    IF S = {} THEN 0
    ELSE LET x == CHOOSE y \in S : TRUE IN f[x] + SumOver(f, S \ {x})

Abs(x) == IF x < 0 THEN 0 - x ELSE x

\* the record of a call: which method, whether it returned normally (ok) or
\* raised, and its arguments (participants, round index, match index, scores)
Call(op, ok, key, key2, r, m, s1, s2) ==
    [op |-> op, ok |-> ok, key |-> key, key2 |-> key2, r |-> r, m |-> m,
     s1 |-> s1, s2 |-> s2]

NoCall == Call("init", TRUE, "-", "-", 0, 0, 0, 0)

EmptyLedger == [k \in {} |-> 0]

----------------------------------------------------------------------------
(* utils/date_utils.py *)

\* the clock reading of a get_current_timestamp call: later than the reading
\* before it, until the clock stops
ClockReadings == {IF now < MaxTime THEN now + 1 ELSE now}

----------------------------------------------------------------------------
(* utils/validators.py *)

\* the scores handed in are numbers

validate_score(score) == score \in {0, 1, 2}

----------------------------------------------------------------------------
(* models/match.py *)

\* Match.__init__ raises when both sides are the same participant
MatchInitRaises(p1, p2) == p1 = p2

Match(p1, p2) ==
    [player1_national_id |-> p1, player2_national_id |-> p2,
     player1_score |-> 0, player2_score |-> 0, is_finished |-> FALSE]

\* set_result without the check of the sum
set_result_NoSumCheck(match, player1_score, player2_score) ==
    IF ~validate_score(player1_score) \/ ~validate_score(player2_score)
    THEN [ok |-> FALSE, match |-> match]
    ELSE [ok |-> TRUE,
          match |-> [match EXCEPT !.player1_score = player1_score,
                                  !.player2_score = player2_score,
                                  !.is_finished = TRUE]]

\* set_result storing player1_score before the sum is checked
set_result_StoresBeforeSumCheck(match, player1_score, player2_score) ==
    IF ~validate_score(player1_score) \/ ~validate_score(player2_score)
    THEN [ok |-> FALSE, match |-> match]
    ELSE IF Abs(player1_score + player2_score - 2) > 0
    THEN [ok |-> FALSE,
          match |-> [match EXCEPT !.player1_score = player1_score]]
    ELSE [ok |-> TRUE,
          match |-> [match EXCEPT !.player1_score = player1_score,
                                  !.player2_score = player2_score,
                                  !.is_finished = TRUE]]

\* Match.set_result: the outcome and the match after the call
set_result(match, player1_score, player2_score) ==
    IF ~validate_score(player1_score) \/ ~validate_score(player2_score)
    THEN [ok |-> FALSE, match |-> match]
    ELSE IF Abs(player1_score + player2_score - 2) > 0
    THEN [ok |-> FALSE, match |-> match]
    ELSE [ok |-> TRUE,
          match |-> [match EXCEPT !.player1_score = player1_score,
                                  !.player2_score = player2_score,
                                  !.is_finished = TRUE]]

----------------------------------------------------------------------------
(* models/round.py *)

\* Round.__init__ at clock reading t; name is the n of "Tour n"
Round(name, t) ==
    [name |-> name, start_time |-> t, end_time |-> <<>>, matches |-> <<>>,
     is_finished |-> FALSE]

\* any() in place of all()
all_matches_finished_Any(round) ==
    \E i \in 1..Len(round.matches) : round.matches[i].is_finished

all_matches_finished(round) ==
    \A i \in 1..Len(round.matches) : round.matches[i].is_finished

get_finished_matches(round) ==
    SelectSeq(round.matches, LAMBDA mt : mt.is_finished)

get_unfinished_matches(round) ==
    SelectSeq(round.matches, LAMBDA mt : ~mt.is_finished)

\* add_match without the check of is_finished
add_match_NoClosedCheck(round, match) ==
    [ok |-> TRUE,
     round |-> [round EXCEPT !.matches = Append(round.matches, match)]]

\* Round.add_match: the outcome and the round after the call
add_match(round, match) ==
    IF round.is_finished
    THEN [ok |-> FALSE, round |-> round]
    ELSE [ok |-> TRUE,
          round |-> [round EXCEPT !.matches = Append(round.matches, match)]]

\* end_round that stamps end_time and leaves is_finished as it is
end_round_StampsOnly(round, t) ==
    IF ~all_matches_finished(round)
    THEN [ok |-> FALSE, round |-> round]
    ELSE [ok |-> TRUE, round |-> [round EXCEPT !.end_time = <<t>>]]

\* Round.end_round at clock reading t: the outcome and the round after the call
end_round(round, t) ==
    IF ~all_matches_finished(round)
    THEN [ok |-> FALSE, round |-> round]
    ELSE [ok |-> TRUE,
          round |-> [round EXCEPT !.end_time = <<t>>, !.is_finished = TRUE]]

----------------------------------------------------------------------------
(* models/tournament.py: queries *)

get_player_score(national_id) ==
    IF national_id \in DOMAIN player_scores THEN player_scores[national_id]
    ELSE 0

has_started == Len(rounds) > 0

\* is_finished reading only the flag set by finish_tournament
is_finished_OnlyFlag == _is_finished

is_finished ==
    \/ _is_finished
    \/ /\ current_round >= number_of_rounds
       /\ Len(rounds) > 0
       /\ rounds[Len(rounds)].is_finished

\* can_start_next_round without the check of the last round
can_start_next_round_IgnoresLastRound ==
    /\ ~is_finished
    /\ Len(players) >= 2
    /\ Len(players) % 2 = 0
    /\ current_round < number_of_rounds

can_start_next_round ==
    /\ ~is_finished
    /\ Len(players) >= 2
    /\ Len(players) % 2 = 0
    /\ current_round < number_of_rounds
    /\ (Len(rounds) = 0 \/ rounds[Len(rounds)].is_finished)

\* the sort key without the score
SortsBefore_NameOnly(a, b) == NameRank[a] < NameRank[b]

\* the sort key (-score, last_name, first_name) of a participant puts a first
SortsBefore(a, b) ==
    \/ get_player_score(a) > get_player_score(b)
    \/ /\ get_player_score(a) = get_player_score(b)
       /\ NameRank[a] < NameRank[b]

\* sorted() is stable: x goes behind every element that does not sort after it
RECURSIVE InsertSorted(_, _)
InsertSorted(x, s) ==
    IF s = <<>> THEN <<x>>
    ELSE IF SortsBefore(x, Head(s)) THEN <<x>> \o s
    ELSE <<Head(s)>> \o InsertSorted(x, Tail(s))

RECURSIVE SortedBySortKey(_)
SortedBySortKey(s) ==
    IF s = <<>> THEN <<>>
    ELSE InsertSorted(s[Len(s)], SortedBySortKey(SubSeq(s, 1, Len(s) - 1)))

get_current_rankings == SortedBySortKey(players)

\* abs(a - b) < 0.001 for two sums of half points: they are the same sum
SameScore(a, b) == Abs(a - b) = 0

\* has_tie_for_first_place comparing the first of the ranking with the last
has_tie_for_first_place_FirstAndLast ==
    IF Len(players) < 2 THEN FALSE
    ELSE LET rankings == get_current_rankings
             first_score == get_player_score(rankings[1])
             second_score == get_player_score(rankings[Len(rankings)])
         IN SameScore(first_score, second_score)

has_tie_for_first_place ==
    IF Len(players) < 2 THEN FALSE
    ELSE LET rankings == get_current_rankings
             first_score == get_player_score(rankings[1])
             second_score == get_player_score(rankings[2])
         IN SameScore(first_score, second_score)

\* the for loop of get_tied_players_for_first: it collects the players of
\* the ranking up to the first one whose score is not first_score
RECURSIVE TiedLoop(_, _, _)
TiedLoop(rankings, first_score, tied_players) ==
    IF rankings = <<>> THEN tied_players
    ELSE IF SameScore(get_player_score(Head(rankings)), first_score)
    THEN TiedLoop(Tail(rankings), first_score,
                  Append(tied_players, Head(rankings)))
    ELSE tied_players

\* get_tied_players_for_first returning the first two of the ranking when
\* they are tied
get_tied_players_for_first_TopTwo ==
    IF has_tie_for_first_place THEN SubSeq(get_current_rankings, 1, 2)
    ELSE <<>>

get_tied_players_for_first ==
    LET rankings == get_current_rankings IN
    IF rankings = <<>> THEN <<>>
    ELSE LET first_score == get_player_score(rankings[1])
             tied_players == TiedLoop(rankings, first_score, <<>>)
         IN IF Len(tied_players) > 1 THEN tied_players ELSE <<>>

needs_tiebreaker_round ==
    /\ current_round >= number_of_rounds
    /\ has_tie_for_first_place
    /\ ~_is_finished

can_create_tiebreaker_pairs ==
    LET tied_players == get_tied_players_for_first
    IN Len(tied_players) >= 2 /\ Len(tied_players) % 2 = 0

----------------------------------------------------------------------------
(* utils/tournament_helpers.py: TournamentPairingHelper *)

\* _have_played_against looking for player1 on the first side only
_have_played_against_FirstSideOnly(player1, player2) ==
    \E r \in 1..Len(rounds) : \E m \in 1..Len(rounds[r].matches) :
        LET match == rounds[r].matches[m] IN
        /\ match.player1_national_id = player1
        /\ match.player2_national_id = player2

_have_played_against(player1, player2) ==
    \E r \in 1..Len(rounds) : \E m \in 1..Len(rounds[r].matches) :
        LET match == rounds[r].matches[m] IN
        \/ /\ match.player1_national_id = player1
           /\ match.player2_national_id = player2
        \/ /\ match.player1_national_id = player2
           /\ match.player2_national_id = player1

\* the outcomes of random.shuffle on a copy of the list
Shuffles(s) ==
    {p \in [1..Len(s) -> Range(s)] :
        \A i, j \in 1..Len(s) : i # j => p[i] # p[j]}

\* pairs (0,1), (2,3), ... of the shuffled copy
_generate_first_round_pairs(players_copy) ==
    [i \in 1..(Len(players_copy) \div 2) |->
        <<players_copy[2 * i - 1], players_copy[2 * i]>>]

\* the scan that never finds a new opponent: the next player is taken
FirstNewOpponent_TakesNext(player1, available_players) == 0

\* index of the first available player who has not played player1, 0 if none
FirstNewOpponent(player1, available_players) ==
    LET fresh == {i \in 1..Len(available_players) :
                    ~_have_played_against(player1, available_players[i])}
    IN IF fresh = {} THEN 0
       ELSE CHOOSE i \in fresh : \A j \in fresh : i <= j

\* the loop with pop(0) in place of pop(i): the opponent stays available
RECURSIVE SwissLoop_PopsHead(_, _)
SwissLoop_PopsHead(available_players, prs) ==
    IF Len(available_players) < 2 THEN prs
    ELSE LET player1 == Head(available_players)
             rest == Tail(available_players)
             i == FirstNewOpponent(player1, rest)
         IN IF i # 0
            THEN SwissLoop_PopsHead(Tail(rest),
                                    Append(prs, <<player1, rest[i]>>))
            ELSE SwissLoop_PopsHead(Tail(rest),
                                    Append(prs, <<player1, Head(rest)>>))

\* the while loop of _generate_swiss_pairs
RECURSIVE SwissLoop(_, _)
SwissLoop(available_players, prs) ==
    IF Len(available_players) < 2 THEN prs
    ELSE LET player1 == Head(available_players)
             rest == Tail(available_players)
             i == FirstNewOpponent(player1, rest)
         IN IF i # 0
            THEN SwissLoop(RemoveAt(rest, i), Append(prs, <<player1, rest[i]>>))
            ELSE SwissLoop(Tail(rest), Append(prs, <<player1, Head(rest)>>))

_generate_swiss_pairs == SwissLoop(SortedBySortKey(players), <<>>)

\* generate_pairs_for_next_round, with the outcome of the shuffle it may
\* draw: whether it returned normally, and the pairs returned
generate_pairs_for_next_round(shuffled) ==
    IF Len(players) % 2 # 0 THEN [ok |-> FALSE, pairs |-> <<>>]
    ELSE IF current_round = 0
    THEN [ok |-> TRUE, pairs |-> _generate_first_round_pairs(shuffled)]
    ELSE [ok |-> TRUE, pairs |-> _generate_swiss_pairs]

----------------------------------------------------------------------------
(* models/tournament.py: operations *)

\* add_player without the check for a participant already in the roster
AddPlayer_NoDuplicateCheck(k) ==
    /\ IF has_started
       THEN /\ UNCHANGED <<players, player_scores>>
            /\ last' = Call("add_player", FALSE, k, "-", 0, 0, 0, 0)
       ELSE /\ players' = Append(players, k)
            /\ player_scores' =
                 [x \in DOMAIN player_scores \cup {k} |->
                     IF x = k THEN 0 ELSE player_scores[x]]
            /\ last' = Call("add_player", TRUE, k, "-", 0, 0, 0, 0)
    /\ UNCHANGED <<number_of_rounds, current_round, rounds, _is_finished,
                   now, pairs, returned>>

\* Tournament.add_player
AddPlayer(k) ==
    /\ IF has_started \/ k \in Range(players)
       THEN /\ UNCHANGED <<players, player_scores>>
            /\ last' = Call("add_player", FALSE, k, "-", 0, 0, 0, 0)
       ELSE /\ players' = Append(players, k)
            /\ player_scores' =
                 [x \in DOMAIN player_scores \cup {k} |->
                     IF x = k THEN 0 ELSE player_scores[x]]
            /\ last' = Call("add_player", TRUE, k, "-", 0, 0, 0, 0)
    /\ UNCHANGED <<number_of_rounds, current_round, rounds, _is_finished,
                   now, pairs, returned>>

\* Tournament.remove_player; it returns False (ok here) for an absent player
RemovePlayer(k) ==
    /\ IF has_started
       THEN /\ UNCHANGED <<players, player_scores>>
            /\ last' = Call("remove_player", FALSE, k, "-", 0, 0, 0, 0)
       ELSE /\ players' = SelectSeq(players, LAMBDA x : x # k)
            /\ player_scores' =
                 IF k \in Range(players)
                 THEN [x \in DOMAIN player_scores \ {k} |-> player_scores[x]]
                 ELSE player_scores
            /\ last' = Call("remove_player", TRUE, k, "-", 0, 0, 0, 0)
    /\ UNCHANGED <<number_of_rounds, current_round, rounds, _is_finished,
                   now, pairs, returned>>

\* add_score_to_player without validate_score
add_score_to_player_NoValidation(scores, national_id, points) ==
    LET current_score == IF national_id \in DOMAIN scores
                         THEN scores[national_id] ELSE 0
    IN [ok |-> TRUE,
        scores |-> [x \in DOMAIN scores \cup {national_id} |->
                       IF x = national_id THEN current_score + points
                       ELSE scores[x]]]

\* Tournament.add_score_to_player: the outcome and the ledger after the call
add_score_to_player(scores, national_id, points) ==
    IF ~validate_score(points)
    THEN [ok |-> FALSE, scores |-> scores]
    ELSE LET current_score == IF national_id \in DOMAIN scores
                              THEN scores[national_id] ELSE 0
         IN [ok |-> TRUE,
             scores |-> [x \in DOMAIN scores \cup {national_id} |->
                            IF x = national_id THEN current_score + points
                            ELSE scores[x]]]

AddScoreToPlayer(k, points) ==
    /\ LET res == add_score_to_player(player_scores, k, points)
       IN /\ player_scores' = res.scores
          /\ last' = Call("add_score_to_player", res.ok, k, "-", 0, 0, points, 0)
    /\ UNCHANGED <<players, number_of_rounds, current_round, rounds,
                   _is_finished, now, pairs, returned>>

\* Tournament.reset_all_scores
ResetAllScores ==
    /\ player_scores' = [x \in DOMAIN player_scores |-> 0]
    /\ last' = Call("reset_all_scores", TRUE, "-", "-", 0, 0, 0, 0)
    /\ UNCHANGED <<players, number_of_rounds, current_round, rounds,
                   _is_finished, now, pairs, returned>>

\* Tournament.finish_tournament
FinishTournament ==
    /\ _is_finished' = TRUE
    /\ last' = Call("finish_tournament", TRUE, "-", "-", 0, 0, 0, 0)
    /\ UNCHANGED <<players, player_scores, number_of_rounds, current_round,
                   rounds, now, pairs, returned>>

\* the loop of start_next_round over the pairs: it stops at the first pair
\* whose Match cannot be built
RECURSIVE BuildRound(_, _)
BuildRound(new_round, prs) ==
    IF prs = <<>> THEN [ok |-> TRUE, round |-> new_round]
    ELSE IF MatchInitRaises(Head(prs)[1], Head(prs)[2])
    THEN [ok |-> FALSE, round |-> new_round]
    ELSE LET res == add_match(new_round, Match(Head(prs)[1], Head(prs)[2]))
         IN IF res.ok THEN BuildRound(res.round, Tail(prs)) ELSE res

\* start_next_round counting the round before it checks that one can start
StartNextRound_CountsBeforeGuard(prs) ==
    /\ current_round' = current_round + 1
    /\ IF ~can_start_next_round
       THEN /\ UNCHANGED <<rounds, now>>
            /\ last' = Call("start_next_round", FALSE, "-", "-", 0, 0, 0, 0)
       ELSE \E t \in ClockReadings :
            LET built == BuildRound(Round(current_round + 1, t), prs)
            IN /\ now' = t
               /\ rounds' = IF built.ok THEN Append(rounds, built.round)
                            ELSE rounds
               /\ last' = Call("start_next_round", built.ok, "-", "-",
                               0, 0, 0, 0)
    /\ UNCHANGED <<players, player_scores, number_of_rounds, _is_finished,
                   pairs, returned>>

\* Tournament.start_next_round(prs)
StartNextRound(prs) ==
    /\ IF ~can_start_next_round
       THEN /\ UNCHANGED <<current_round, rounds>>
            /\ last' = Call("start_next_round", FALSE, "-", "-", 0, 0, 0, 0)
            /\ UNCHANGED now
       ELSE \E t \in ClockReadings :
            LET built == BuildRound(Round(current_round + 1, t), prs)
            IN /\ current_round' = current_round + 1
               /\ now' = t
               /\ rounds' = IF built.ok THEN Append(rounds, built.round)
                            ELSE rounds
               /\ last' = Call("start_next_round", built.ok, "-", "-",
                               0, 0, 0, 0)
    /\ UNCHANGED <<players, player_scores, number_of_rounds, _is_finished,
                   pairs, returned>>

\* recording a result: rounds[r].matches[m].set_result(s1, s2), then
\* add_score_to_player for each of the two participants with their score
RecordResult(r, m, s1, s2) ==
    /\ r \in 1..Len(rounds)
    /\ m \in 1..Len(rounds[r].matches)
    /\ LET match == rounds[r].matches[m]
           res == set_result(match, s1, s2)
           add1 == add_score_to_player(player_scores,
                                       match.player1_national_id, s1)
           add2 == add_score_to_player(add1.scores,
                                       match.player2_national_id, s2)
       IN /\ rounds' = [rounds EXCEPT ![r].matches[m] = res.match]
          /\ player_scores' = IF ~res.ok THEN player_scores
                              ELSE IF ~add1.ok THEN add1.scores
                              ELSE add2.scores
          /\ last' = Call("record_result", res.ok /\ add1.ok /\ add2.ok,
                          "-", "-", 0, 0, 0, 0)
    /\ UNCHANGED <<players, number_of_rounds, current_round, _is_finished,
                   now, pairs, returned>>

----------------------------------------------------------------------------
(* Calls on the Round and Match objects held in rounds *)

TournamentVars == <<players, player_scores, number_of_rounds, current_round,
                    _is_finished, pairs, returned>>

\* Match(p1, p2) followed by rounds[r].add_match(match)
RoundAddMatch(r, p1, p2) ==
    /\ r \in 1..Len(rounds)
    /\ Len(rounds[r].matches) < MaxMatches
    /\ LET res == IF MatchInitRaises(p1, p2)
                  THEN [ok |-> FALSE, round |-> rounds[r]]
                  ELSE add_match(rounds[r], Match(p1, p2))
       IN /\ rounds' = ReplaceAt(rounds, r, res.round)
          /\ last' = Call("add_match", res.ok, p1, p2, r, 0, 0, 0)
    /\ UNCHANGED <<TournamentVars, now>>

\* rounds[r].matches[m].set_result(s1, s2)
MatchSetResult(r, m, s1, s2) ==
    /\ r \in 1..Len(rounds)
    /\ m \in 1..Len(rounds[r].matches)
    /\ LET res == set_result(rounds[r].matches[m], s1, s2)
       IN /\ rounds' = [rounds EXCEPT ![r].matches[m] = res.match]
          /\ last' = Call("set_result", res.ok, "-", "-", r, m, s1, s2)
    /\ UNCHANGED <<TournamentVars, now>>

\* rounds[r].end_round()
RoundEndRound(r) ==
    /\ r \in 1..Len(rounds)
    /\ \E t \in ClockReadings :
         LET res == end_round(rounds[r], t)
         IN /\ rounds' = ReplaceAt(rounds, r, res.round)
            /\ now' = IF res.ok THEN t ELSE now
            /\ last' = Call("end_round", res.ok, "-", "-", r, 0, 0, 0)
    /\ UNCHANGED TournamentVars

----------------------------------------------------------------------------
(* A Round built on its own and driven through its public methods *)

InitRound ==
    /\ players = <<>>
    /\ player_scores = EmptyLedger
    /\ number_of_rounds = 1
    /\ current_round = 0
    /\ rounds = <<Round(1, 0)>>
    /\ _is_finished = FALSE
    /\ now = 0
    /\ pairs = <<>>
    /\ returned = <<>>
    /\ last = NoCall

NextRound ==
    \/ \E r \in 1..Len(rounds), p1, p2 \in MatchKeys : RoundAddMatch(r, p1, p2)
    \/ \E r \in 1..Len(rounds), m \in 1..MaxMatches, s1, s2 \in ScoreInputs :
         MatchSetResult(r, m, s1, s2)
    \/ \E r \in 1..Len(rounds) : RoundEndRound(r)

SpecRound == InitRound /\ [][NextRound]_vars

----------------------------------------------------------------------------
(* The pairing helper applied to a roster, a ledger and a match history *)

\* the pairs a history is drawn from, some with the sides swapped
HistoryPairs == << <<"A", "B">>, <<"C", "A">>, <<"A", "D">>,
                  <<"C", "B">>, <<"B", "D">>, <<"D", "C">> >>

\* rosters: lists of distinct participants, of every length
Rosters == UNION {{p \in [1..n -> Keys] :
                     \A i, j \in 1..n : i # j => p[i] # p[j]} :
                  n \in 0..Cardinality(Keys)}

\* the round start_next_round builds from the pairs numbered by H
HistoryRound(H) ==
    BuildRound(Round(1, 0),
               SelectSeq([i \in 1..Len(HistoryPairs) |->
                            IF i \in H THEN HistoryPairs[i] ELSE <<"-", "-">>],
                         LAMBDA pr : pr[1] # "-")).round

InitPairing ==
    /\ players \in Rosters
    /\ player_scores \in [Range(players) -> 0..MaxInitScore]
    /\ number_of_rounds = MaxRounds
    /\ \/ current_round = 0 /\ rounds = <<>>
       \/ /\ current_round = 1
          /\ \E H \in SUBSET {i \in 1..Len(HistoryPairs) :
                                 /\ HistoryPairs[i][1] \in Range(players)
                                 /\ HistoryPairs[i][2] \in Range(players)} :
                rounds = <<HistoryRound(H)>>
    /\ _is_finished = FALSE
    /\ now = 0
    /\ pairs = <<>>
    /\ returned = <<>>
    /\ last = NoCall

\* TournamentPairingHelper.generate_pairs_for_next_round(tournament)
GeneratePairs ==
    /\ \E shuffled \in (IF current_round = 0 /\ Len(players) % 2 = 0
                         THEN Shuffles(players) ELSE {players}) :
         LET res == generate_pairs_for_next_round(shuffled)
         IN /\ pairs' = res.pairs
            /\ last' = Call("generate_pairs", res.ok, "-", "-", 0, 0, 0, 0)
    /\ UNCHANGED <<players, player_scores, number_of_rounds, current_round,
                   rounds, _is_finished, now, returned>>

NextPairing == GeneratePairs

SpecPairing == InitPairing /\ [][NextPairing]_vars

\* how often participant k stands on either side of a pair
Appearances(k, prs) ==
    Cardinality({i \in 1..Len(prs) : prs[i][1] = k})
    + Cardinality({i \in 1..Len(prs) : prs[i][2] = k})

PlayedBefore(a, b) ==
    \E r \in 1..Len(rounds) : \E m \in 1..Len(rounds[r].matches) :
        {rounds[r].matches[m].player1_national_id,
         rounds[r].matches[m].player2_national_id} = {a, b}

\* C1: for an even roster of N >= 2 participants generate_pairs returns N/2
\* pairs, every participant in exactly one of them, no participant against
\* itself, in the first round and in the Swiss rounds.
C1_PairingCoversRosterOnce ==
    (last.op = "generate_pairs" /\ Len(players) >= 2 /\ Len(players) % 2 = 0)
    => /\ last.ok
       /\ 2 * Len(pairs) = Len(players)
       /\ \A k \in Range(players) : Appearances(k, pairs) = 1
       /\ \A i \in 1..Len(pairs) : pairs[i][1] # pairs[i][2]

\* a Swiss pairing of four participants in which the second-ranked one was
\* taken out of the middle of the list and the last pair is a forced rematch
C1_Witness ==
    /\ last.op = "generate_pairs" /\ last.ok
    /\ current_round > 0 /\ Len(players) = 4 /\ Len(pairs) = 2
    /\ pairs[1][2] # SortedBySortKey(players)[2]
    /\ PlayedBefore(pairs[2][1], pairs[2][2])

----------------------------------------------------------------------------
(* The tournament from its construction on *)

Init ==
    /\ players = <<>>
    /\ player_scores = EmptyLedger
    /\ number_of_rounds \in 1..MaxRounds
    /\ current_round = 0
    /\ rounds = <<>>
    /\ _is_finished = FALSE
    /\ now = 0
    /\ pairs = <<>>
    /\ returned = <<>>
    /\ last = NoCall

\* the pairs a caller hands to start_next_round: those of the pairing
\* helper, or none where the helper raises or no round can start
PairInputs ==
    IF Len(players) % 2 # 0 \/ ~can_start_next_round
    THEN {<<>>}
    ELSE {generate_pairs_for_next_round(shuffled).pairs :
            shuffled \in (IF current_round = 0 THEN Shuffles(players)
                          ELSE {players})}

\* a result is entered for a match that has none yet
EnterResult(r, m, s1, s2) ==
    /\ r \in 1..Len(rounds)
    /\ m \in 1..Len(rounds[r].matches)
    /\ ~rounds[r].matches[m].is_finished
    /\ RecordResult(r, m, s1, s2)

\* the round in progress is closed (or the attempt fails)
EndCurrentRound ==
    /\ Len(rounds) > 0
    /\ ~rounds[Len(rounds)].is_finished
    /\ RoundEndRound(Len(rounds))

\* new participants register in the order of their names
Registers(k) ==
    /\ k \notin Range(players)
    /\ \A x \in Keys : NameRank[x] < NameRank[k] => x \in Range(players)

Next ==
    \/ \E k \in Keys : Registers(k) /\ AddPlayer(k)
    \/ \E prs \in PairInputs : StartNextRound(prs)
    \/ \E r \in 1..MaxRounds, m \in 1..Cardinality(Keys), res \in ResultInputs :
         EnterResult(r, m, res[1], res[2])
    \/ EndCurrentRound
    \/ FinishTournament

Spec == Init /\ [][Next]_vars

----------------------------------------------------------------------------
(* The tournament of two participants, its methods called in any order *)

\* the ledger after the step stays within the bound
WithinMaxLedger ==
    \A k \in DOMAIN player_scores' : player_scores'[k] <= MaxLedger

\* results are recorded for any match, finished or not
NextRecord ==
    \/ \E k \in MatchKeys : AddPlayer(k)
    \/ \E prs \in PairInputs : StartNextRound(prs)
    \/ \E r \in 1..MaxRounds, m \in 1..Cardinality(MatchKeys),
          res \in ResultInputs :
         RecordResult(r, m, res[1], res[2]) /\ WithinMaxLedger
    \/ \E r \in 1..MaxRounds : RoundEndRound(r)

SpecRecord == Init /\ [][NextRecord]_vars

\* participants join and withdraw, the ledger is written directly, a round
\* is started
NextLedger ==
    \/ \E k \in MatchKeys : AddPlayer(k)
    \/ \E prs \in PairInputs : StartNextRound(prs)
    \/ \E k \in MatchKeys : RemovePlayer(k)
    \/ \E k \in MatchKeys, points \in ScoreInputs :
         AddScoreToPlayer(k, points) /\ WithinMaxLedger

SpecLedger == Init /\ [][NextLedger]_vars

----------------------------------------------------------------------------
(* Ledger properties *)

LedgerTotal == SumOver(player_scores, DOMAIN player_scores)

FinishedMatches ==
    Cardinality({rm \in (1..Len(rounds)) \X (1..Cardinality(Keys)) :
                   /\ rm[2] <= Len(rounds[rm[1]].matches)
                   /\ rounds[rm[1]].matches[rm[2]].is_finished})

\* C3: recording a result raises the ledger total by exactly 1.0, so the
\* ledger total always equals the number of finished matches.  Checked under
\* SpecRecord, where results are recorded for any match.
C3_LedgerTotalIsFinishedMatches ==
    /\ [](LedgerTotal = 2 * FinishedMatches)
    /\ [][(last'.op = "record_result" /\ last'.ok)
           => LedgerTotal' = LedgerTotal + 2]_vars

\* C9: add_player fails and changes neither roster nor ledger when a round
\* exists or the key is already in the roster; on success the key is appended
\* with a ledger entry of 0; every roster key has a ledger entry.  Checked
\* under SpecLedger.
C9_AddPlayerGuards ==
    /\ [](\A k \in Range(players) : k \in DOMAIN player_scores)
    /\ [][last'.op = "add_player" =>
            /\ (Len(rounds) > 0 \/ last'.key \in Range(players))
                 => /\ ~last'.ok
                    /\ players' = players
                    /\ player_scores' = player_scores
            /\ last'.ok
                 => /\ players' = Append(players, last'.key)
                    /\ last'.key \in DOMAIN player_scores'
                    /\ player_scores'[last'.key] = 0]_vars

\* add_player has just failed for a participant who is in the roster with
\* points in the ledger, before any round
C9_Witness ==
    /\ last.op = "add_player" /\ ~last.ok
    /\ Len(rounds) = 0
    /\ last.key \in Range(players)
    /\ player_scores[last.key] > 0
    /\ Len(players) = 2

\* C10: add_score_to_player fails unless points is 0, 0.5 or 1, and then
\* changes no ledger entry; on success only the entry of the named key
\* changes, by the points given.  Checked under SpecLedger.
C10_AddScoreValidates ==
    [][last'.op = "add_score_to_player" =>
        /\ last'.s1 \notin {0, 1, 2}
             => (~last'.ok /\ player_scores' = player_scores)
        /\ last'.ok
             => /\ DOMAIN player_scores' = DOMAIN player_scores \cup {last'.key}
                /\ player_scores'[last'.key] =
                     (IF last'.key \in DOMAIN player_scores
                      THEN player_scores[last'.key] ELSE 0) + last'.s1
                /\ \A k \in DOMAIN player_scores \ {last'.key} :
                     player_scores'[k] = player_scores[k]]_vars

\* add_score_to_player(key, 1.5) has just failed on a ledger in which the key
\* and another participant both have points
C10_Witness ==
    /\ last.op = "add_score_to_player" /\ ~last.ok /\ last.s1 = 3
    /\ last.key \in DOMAIN player_scores
    /\ player_scores[last.key] > 0
    /\ \E k \in DOMAIN player_scores : k # last.key /\ player_scores[k] > 0

----------------------------------------------------------------------------
(* Lifecycle properties, checked under Spec *)

TournamentOver ==
    \/ _is_finished
    \/ /\ current_round >= number_of_rounds
       /\ rounds # <<>>
       /\ rounds[Len(rounds)].is_finished

LastRoundOpen == rounds # <<>> /\ ~rounds[Len(rounds)].is_finished

\* C8: start_next_round succeeds only when the tournament is not finished,
\* the roster is even with at least 2 participants and the last round, if
\* any, is closed; with the last round open or the tournament finished it
\* fails and appends no round.
C8_StartNextRoundGuards ==
    [][last'.op = "start_next_round" =>
        /\ last'.ok => /\ ~TournamentOver
                       /\ Len(players) >= 2
                       /\ Len(players) % 2 = 0
                       /\ ~LastRoundOpen
        /\ (LastRoundOpen \/ TournamentOver)
             => (~last'.ok /\ rounds' = rounds)]_vars

\* start_next_round has just failed in a tournament of four with rounds left
\* to play, because the round in progress, one result entered, is open
C8_Witness ==
    /\ last.op = "start_next_round" /\ ~last.ok
    /\ Len(players) = 4 /\ current_round < number_of_rounds
    /\ ~_is_finished
    /\ LastRoundOpen
    /\ \E m \in 1..Len(rounds[Len(rounds)].matches) :
         rounds[Len(rounds)].matches[m].is_finished

----------------------------------------------------------------------------
(* Match and Round properties, checked under SpecRound *)

AllMatches == {<<r, m>> \in (1..Len(rounds)) \X (1..MaxMatches + 2) :
                 m <= Len(rounds[r].matches)}

MatchAt(rm) == rounds[rm[1]].matches[rm[2]]

\* C2: a finished match has both scores in {0, 0.5, 1} and they sum to 1.0;
\* an unfinished match has both scores 0.
C2_FinishedScoresSumToOne ==
    \A rm \in AllMatches :
        LET mt == MatchAt(rm) IN
        IF mt.is_finished
        THEN /\ mt.player1_score \in {0, 1, 2}
             /\ mt.player2_score \in {0, 1, 2}
             /\ mt.player1_score + mt.player2_score = 2
        ELSE mt.player1_score = 0 /\ mt.player2_score = 0

\* a drawn, finished match on which a later set_result call has just failed,
\* next to a match that is still unfinished
C2_Witness ==
    /\ last.op = "set_result" /\ ~last.ok
    /\ \E rm \in AllMatches :
         /\ rm = <<last.r, last.m>>
         /\ MatchAt(rm).is_finished
         /\ MatchAt(rm).player1_score = 1
    /\ \E rm \in AllMatches : ~MatchAt(rm).is_finished

BadScores(s1, s2) ==
    s1 \notin {0, 1, 2} \/ s2 \notin {0, 1, 2} \/ s1 + s2 # 2

\* C4: set_result fails when a score is outside {0, 0.5, 1} or the scores do
\* not sum to 1.0, and the failing call leaves every match as it was.
C4_SetResultRejectsBadScores ==
    [][(last'.op = "set_result" /\ BadScores(last'.s1, last'.s2))
         => (~last'.ok /\ rounds' = rounds)]_vars

\* set_result(1.5, -0.5), whose scores sum to 1.0, has just failed on a match
\* that holds a recorded result
C4_Witness ==
    /\ last.op = "set_result" /\ ~last.ok
    /\ last.s1 = 3 /\ last.s2 = 0 - 1
    /\ MatchAt(<<last.r, last.m>>).is_finished
    /\ MatchAt(<<last.r, last.m>>).player1_score = 2

\* C5: set_result on a match that is already finished fails and leaves the
\* recorded scores unchanged, whatever scores are passed.
C5_SecondSetResultFails ==
    [][(last'.op = "set_result" /\ rounds[last'.r].matches[last'.m].is_finished)
         => (~last'.ok /\ rounds' = rounds)]_vars

\* C6: end_round fails, leaving the round open and end_time unset, whenever a
\* match of the round is unfinished; so a closed round has only finished
\* matches.
C6_EndRoundNeedsAllFinished ==
    /\ [](\A rm \in AllMatches :
            rounds[rm[1]].is_finished => MatchAt(rm).is_finished)
    /\ [][(/\ last'.op = "end_round"
           /\ \E i \in 1..Len(rounds[last'.r].matches) :
                 ~rounds[last'.r].matches[i].is_finished)
          => (/\ ~last'.ok
              /\ rounds' = rounds
              /\ ~rounds'[last'.r].is_finished
              /\ rounds'[last'.r].end_time = <<>>)]_vars

\* end_round has just failed on a round holding one finished and one
\* unfinished match
C6_Witness ==
    /\ last.op = "end_round" /\ ~last.ok
    /\ \E i, j \in 1..Len(rounds[last.r].matches) :
         /\ rounds[last.r].matches[i].is_finished
         /\ ~rounds[last.r].matches[j].is_finished
    /\ ~rounds[last.r].is_finished

\* C7: a closed round stays closed, and every add_match call on it fails and
\* leaves its match list unchanged.
C7_ClosedRoundRejectsAddMatch ==
    [][/\ \A r \in 1..Len(rounds) :
            rounds[r].is_finished =>
                (Len(rounds') >= r /\ rounds'[r].is_finished)
       /\ (last'.op = "add_match" /\ rounds[last'.r].is_finished)
            => (~last'.ok /\ rounds'[last'.r].matches = rounds[last'.r].matches)
      ]_vars

\* add_match with two different participants has just failed on a round that
\* was closed with one finished match in it
C7_Witness ==
    /\ last.op = "add_match" /\ ~last.ok /\ last.key # last.key2
    /\ rounds[last.r].is_finished
    /\ Len(rounds[last.r].matches) = 1

----------------------------------------------------------------------------
(* The tournament of two participants handed any list of pairs *)

\* lists of pairs a caller may hand to start_next_round: none, one pair, a
\* participant paired with itself, alone or after or before a proper pair
AnyPairLists ==
    {<<>>,
     << <<"A", "B">> >>,
     << <<"A", "A">> >>,
     << <<"A", "B">>, <<"B", "A">> >>,
     << <<"A", "B">>, <<"B", "B">> >>,
     << <<"B", "B">>, <<"A", "B">> >>}

NextAnyPairs ==
    \/ \E k \in MatchKeys : AddPlayer(k)
    \/ \E k \in MatchKeys : RemovePlayer(k)
    \/ \E prs \in AnyPairLists : StartNextRound(prs)
    \/ \E r \in 1..MaxRounds, m \in 1..MaxMatches, res \in ResultInputs :
         MatchSetResult(r, m, res[1], res[2])
    \/ \E r \in 1..MaxRounds : RoundEndRound(r)
    \/ FinishTournament

SpecAnyPairs == Init /\ [][NextAnyPairs]_vars

\* C11: in every state reached through add_player, remove_player,
\* start_next_round with any list of pairs (calls that fail part-way
\* included), set_result, end_round and finish_tournament, current_round is
\* the number of rounds held.
C11_CurrentRoundIsRoundCount == current_round = Len(rounds)

----------------------------------------------------------------------------
(* End of the tournament and ties for the first place *)

LastRoundClosed == rounds # <<>> /\ rounds[Len(rounds)].is_finished

\* C12: is_finished() is true only where current_round >= number_of_rounds
\* and the last round is closed; never while no round exists or while the
\* last round is open.
C12_FinishedOnlyAfterLastRoundClosed ==
    is_finished => (current_round >= number_of_rounds /\ LastRoundClosed)

\* the participants no other participant of the roster outscores
Leaders ==
    {k \in Range(players) :
        \A x \in Range(players) : get_player_score(k) >= get_player_score(x)}

\* the first and the second of the ranking have the same score
TopTwoTied == Cardinality(Leaders) >= 2

\* C13: when the last scheduled round is closed, the top two of the ranking
\* have equal scores and nobody has declared the tournament finished,
\* is_finished() is false: closing the last scheduled round finishes the
\* tournament only if no tie-break is needed.
C13_TiePendingIsNotFinished ==
    (/\ current_round >= number_of_rounds
     /\ LastRoundClosed
     /\ ~_is_finished
     /\ TopTwoTied) => ~is_finished

\* C14: once the scheduled round count is reached and the tournament has not
\* been declared finished, needs_tiebreaker_round() is true exactly when the
\* first and the second of the ranking have equal scores; before the
\* scheduled round count is reached it is false.
C14_TiebreakerIffTopTwoTied ==
    /\ (current_round >= number_of_rounds /\ ~_is_finished)
         => (needs_tiebreaker_round <=> TopTwoTied)
    /\ current_round < number_of_rounds => ~needs_tiebreaker_round

\* the last scheduled round of a tournament of four is closed, nobody has
\* declared it finished, two participants lead with equal scores and the
\* other two trail: a tie-break is needed
C14_Witness ==
    /\ Len(players) = 4
    /\ current_round >= number_of_rounds /\ LastRoundClosed /\ ~_is_finished
    /\ Cardinality(Leaders) = 2
    /\ needs_tiebreaker_round

\* C15: whenever at least two participants share the leader's score,
\* get_tied_players_for_first returns exactly those participants, in the
\* order of the ranking; it never returns a participant with a lower score.
C15_TiedPlayersAreTheLeaders ==
    /\ Cardinality(Leaders) >= 2
         => get_tied_players_for_first
              = SelectSeq(get_current_rankings, LAMBDA k : k \in Leaders)
    /\ \A i \in 1..Len(get_tied_players_for_first) :
         get_tied_players_for_first[i] \in Leaders

\* four participants, two leading with equal scores and two trailing: the
\* two leaders are returned
C15_Witness ==
    /\ Len(players) = 4
    /\ Cardinality(Leaders) = 2
    /\ Len(get_tied_players_for_first) = 2
    /\ \E k \in Range(players) :
         get_player_score(k) < get_player_score(get_current_rankings[1])
    /\ \A k \in Leaders : get_player_score(k) > 0

----------------------------------------------------------------------------
(* Queries on a tournament with any roster, ledger and match history *)

\* Tournament.get_current_rankings()
GetCurrentRankings ==
    /\ returned' = get_current_rankings
    /\ last' = Call("get_current_rankings", TRUE, "-", "-", 0, 0, 0, 0)
    /\ UNCHANGED <<players, player_scores, number_of_rounds, current_round,
                   rounds, _is_finished, now, pairs>>

NextQuery == GetCurrentRankings

SpecQuery == InitPairing /\ [][NextQuery]_vars

\* how often participant k stands in the list s
Occurrences(k, s) == Cardinality({i \in 1..Len(s) : s[i] = k})

\* C16: get_current_rankings returns a permutation of the roster ordered by
\* non-increasing ledger score, and a second call with no mutation in
\* between returns the same list.
C16_RankingIsSortedPermutation ==
    /\ [](last.op = "get_current_rankings" =>
            /\ \A k \in Keys : Occurrences(k, returned) = Occurrences(k, players)
            /\ \A i, j \in 1..Len(returned) :
                 i < j => get_player_score(returned[i])
                            >= get_player_score(returned[j]))
    /\ [][(last.op = "get_current_rankings"
           /\ last'.op = "get_current_rankings") => returned' = returned]_vars

\* a ranking of four participants that moved a later participant of the
\* roster in front of an earlier one and kept two of equal score
C16_Witness ==
    /\ last.op = "get_current_rankings"
    /\ Len(returned) = 4 /\ returned # players
    /\ get_player_score(returned[1]) > get_player_score(returned[4])
    /\ \E i \in 1..3 :
         get_player_score(returned[i]) = get_player_score(returned[i + 1])

\* C17: generate_pairs_for_next_round fails, returning no pairs, whenever the
\* roster size is odd, and also for a roster of size 0 or 1, before any
\* pairing is attempted.
C17_PairingRejectsOddAndTinyRosters ==
    (last.op = "generate_pairs"
     /\ (Len(players) % 2 # 0 \/ Len(players) < 2))
    => (~last.ok /\ pairs = <<>>)

----------------------------------------------------------------------------
(* utils/tournament_helpers.py: TournamentValidationHelper *)

\* an entry of the list of errors: which error, for which round (0 if for
\* none), about which participants
Finding(error, round_number, ids) ==
    [error |-> error, round_number |-> round_number, ids |-> ids]

\* errors.extend over a list of lists
RECURSIVE Extend(_)
Extend(lists) ==
    IF lists = <<>> THEN <<>> ELSE Head(lists) \o Extend(Tail(lists))

\* one error for every element of ids that stands in ids before it
SeenAgain(ids, error, round_number) ==
    Extend([i \in 1..Len(ids) |->
              IF \E j \in 1..(i - 1) : ids[j] = ids[i]
              THEN <<Finding(error, round_number, {ids[i]})>>
              ELSE <<>>])

_validate_players ==
    (IF Len(players) < 2
     THEN <<Finding("Au moins 2 joueurs requis", 0, {})>> ELSE <<>>)
    \o (IF Len(players) % 2 # 0
        THEN <<Finding("Le nombre de joueurs doit etre pair", 0, {})>>
        ELSE <<>>)
    \o SeenAgain(players, "ID joueur duplique", 0)

\* the body of the loop of _validate_rounds for the round numbered i + 1
ValidateRound(round_number) ==
    LET round_obj == rounds[round_number]
        players_in_round ==
            Extend([m \in 1..Len(round_obj.matches) |->
                      <<round_obj.matches[m].player1_national_id,
                        round_obj.matches[m].player2_national_id>>])
        missing_players == Range(players) \ Range(players_in_round)
        extra_players == Range(players_in_round) \ Range(players)
    IN IF round_obj.matches = <<>>
       THEN <<Finding("Aucun match", round_number, {})>>
       ELSE SeenAgain(players_in_round, "joue plusieurs fois", round_number)
            \o (IF missing_players # {}
                THEN <<Finding("Joueurs manquants", round_number,
                               missing_players)>>
                ELSE <<>>)
            \o (IF extra_players # {}
                THEN <<Finding("Joueurs non inscrits", round_number,
                               extra_players)>>
                ELSE <<>>)

_validate_rounds == Extend([i \in 1..Len(rounds) |-> ValidateRound(i)])

_validate_consistency ==
    (IF current_round # Len(rounds)
     THEN <<Finding("Incoherence: current_round", 0, {})>> ELSE <<>>)
    \o Extend([i \in 1..Len(rounds) |->
                 IF rounds[i].is_finished /\ ~all_matches_finished(rounds[i])
                 THEN <<Finding("Marque termine mais des matchs sont incomplets",
                                i, {})>>
                 ELSE <<>>])
    \o (IF /\ rounds # <<>>
           /\ ~rounds[Len(rounds)].is_finished
           /\ is_finished
        THEN <<Finding("Tournoi marque termine mais le dernier tour n'est pas fini",
                       0, {})>>
        ELSE <<>>)

\* TournamentValidationHelper.validate_tournament_state, to which
\* Tournament.validate_tournament_state delegates
validate_tournament_state ==
    _validate_players \o _validate_rounds \o _validate_consistency

\* expected_scores[national_id]: the points of the participant over the
\* finished matches of all rounds
expected_scores(national_id) ==
    LET of_round ==
          [r \in 1..Len(rounds) |->
             LET finished == get_finished_matches(rounds[r])
                 of_match ==
                   [m \in 1..Len(finished) |->
                      (IF finished[m].player1_national_id = national_id
                       THEN finished[m].player1_score ELSE 0)
                      + (IF finished[m].player2_national_id = national_id
                         THEN finished[m].player2_score ELSE 0)]
             IN SumOver(of_match, DOMAIN of_match)]
    IN SumOver(of_round, DOMAIN of_round)

\* TournamentValidationHelper.validate_player_scores; a difference of more
\* than 0.001 between two sums of half points is any difference
validate_player_scores ==
    Extend([i \in 1..Len(players) |->
              IF Abs(expected_scores(players[i])
                     - get_player_score(players[i])) > 0
              THEN <<Finding("score actuel, score attendu", 0, {players[i]})>>
              ELSE <<>>])

\* some participant of the roster has a ledger entry that is not the sum of
\* the participant's scores over the finished matches
LedgerMismatch ==
    \E k \in Range(players) :
        LET points == [rm \in AllMatches |->
                         IF ~MatchAt(rm).is_finished THEN 0
                         ELSE IF MatchAt(rm).player1_national_id = k
                         THEN MatchAt(rm).player1_score
                         ELSE IF MatchAt(rm).player2_national_id = k
                         THEN MatchAt(rm).player2_score
                         ELSE 0]
        IN get_player_score(k) # SumOver(points, AllMatches)

\* C18: validate_tournament_state returns a non-empty list of findings
\* whenever the ledger entry of some participant of the roster differs from
\* the sum of the participant's scores over the finished matches, whenever
\* current_round differs from the number of rounds, and whenever a closed
\* round holds an unfinished match.
C18_ValidationReportsInconsistency ==
    (\/ LedgerMismatch
     \/ current_round # Len(rounds)
     \/ \E r \in 1..Len(rounds) :
          /\ rounds[r].is_finished
          /\ \E m \in 1..Len(rounds[r].matches) :
               ~rounds[r].matches[m].is_finished)
    => validate_tournament_state # <<>>

----------------------------------------------------------------------------
(* A tournament of A, B, C and D over two rounds *)

\* round r holds a match of a against b
Meets(r, a, b) ==
    \E m \in 1..Len(rounds[r].matches) :
        {rounds[r].matches[m].player1_national_id,
         rounds[r].matches[m].player2_national_id} = {a, b}

\* round r holds a finished match of a against b in which a scored sa and
\* b scored sb (half points)
Result(r, a, b, sa, sb) ==
    \E m \in 1..Len(rounds[r].matches) :
        LET match == rounds[r].matches[m] IN
        /\ match.is_finished
        /\ \/ /\ match.player1_national_id = a /\ match.player2_national_id = b
              /\ match.player1_score = sa /\ match.player2_score = sb
           \/ /\ match.player1_national_id = b /\ match.player2_national_id = a
              /\ match.player1_score = sb /\ match.player2_score = sa

\* four participants, two scheduled rounds, round 1 closed with A having
\* beaten B and C having drawn with D
RoundOneOfExample ==
    /\ Range(players) = {"A", "B", "C", "D"}
    /\ number_of_rounds = 2
    /\ Len(rounds) >= 1
    /\ rounds[1].is_finished
    /\ Result(1, "A", "B", 2, 0)
    /\ Result(1, "C", "D", 1, 1)

\* C19: with A, B, C, D and two scheduled rounds, after round 1 (A beats B,
\* C draws D) is closed, the Swiss pairing of round 2 does not pair A with B:
\* A meets C or D and B meets the other one; and when round 2 is recorded so
\* that A alone has the top score and is closed, the tournament is finished,
\* no tie-break is needed and A is first in the ranking.
C19_TwoRoundExample ==
    /\ (RoundOneOfExample /\ Len(rounds) = 2)
         => /\ Len(rounds[2].matches) = 2
            /\ ~Meets(2, "A", "B")
            /\ \/ Meets(2, "A", "C") /\ Meets(2, "B", "D")
               \/ Meets(2, "A", "D") /\ Meets(2, "B", "C")
    /\ (/\ RoundOneOfExample /\ Len(rounds) = 2
        /\ rounds[2].is_finished
        /\ Leaders = {"A"})
         => /\ is_finished
            /\ ~needs_tiebreaker_round
            /\ get_current_rankings[1] = "A"

\* round 2 of the example is closed, nobody has declared the tournament
\* finished, and A leads alone after a second win
C19_Witness ==
    /\ RoundOneOfExample /\ Len(rounds) = 2
    /\ rounds[2].is_finished
    /\ ~_is_finished
    /\ player_scores["A"] = 4
    /\ Leaders = {"A"}

----------------------------------------------------------------------------
(* Rematches in the Swiss pairing *)

\* the roster can be split into pairs none of which has already played
RematchFreePairingExists ==
    \E p \in Shuffles(players) :
        \A i \in 1..(Len(p) \div 2) : ~PlayedBefore(p[2 * i - 1], p[2 * i])

SwissPairsReturned ==
    /\ last.op = "generate_pairs" /\ last.ok
    /\ current_round > 0
    /\ Len(players) % 2 = 0

\* C20 as stated: for every even roster, ledger and match history for which
\* some complete pairing holds no pair that has already played, the pairs
\* returned by _generate_swiss_pairs hold no pair that has already played.
C20_NoAvoidableRematch ==
    (SwissPairsReturned /\ RematchFreePairingExists)
    => \A i \in 1..Len(pairs) : ~PlayedBefore(pairs[i][1], pairs[i][2])

\* C20, amended: a pair returned by _generate_swiss_pairs has already played
\* only if its first participant has already played every participant of
\* that pair and of the pairs after it.
C20_RematchOnlyByFallback ==
    SwissPairsReturned
    => \A i \in 1..Len(pairs) :
         PlayedBefore(pairs[i][1], pairs[i][2])
         => \A j \in i..Len(pairs) :
              \A x \in {pairs[j][1], pairs[j][2]} \ {pairs[i][1]} :
                  PlayedBefore(pairs[i][1], x)

\* a Swiss pairing of four in which the top-ranked participant, having
\* played all three others, is paired again with the second-ranked one and
\* the other two meet for the first time
C20_Witness ==
    /\ SwissPairsReturned
    /\ Len(pairs) = 2
    /\ PlayedBefore(pairs[1][1], pairs[1][2])
    /\ pairs[1][2] = SortedBySortKey(players)[2]
    /\ ~PlayedBefore(pairs[2][1], pairs[2][2])

----------------------------------------------------------------------------
(* Supplementary rounds *)

\* the last scheduled round is closed, nobody has declared the tournament
\* finished, and an even group of at least two participants leads
TieBreakDue ==
    /\ current_round >= number_of_rounds
    /\ LastRoundClosed
    /\ ~_is_finished
    /\ Cardinality(Leaders) >= 2
    /\ Cardinality(Leaders) % 2 = 0

\* C21: after the last scheduled round has closed with an even group of at
\* least 2 participants tied for the first place, a supplementary round can
\* be started, and its matches are those of the tied participants paired
\* adjacently in the order of the ranking (1st against 2nd, 3rd against 4th);
\* nobody outside the tied group is in a match of that round.
C21_TieBreakRoundStarts ==
    [][(last'.op = "start_next_round" /\ TieBreakDue)
        => LET tied == get_tied_players_for_first IN
           /\ last'.ok
           /\ Len(rounds') = Len(rounds) + 1
           /\ Len(rounds'[Len(rounds')].matches) = Len(tied) \div 2
           /\ \A i \in 1..(Len(tied) \div 2) :
                LET match == rounds'[Len(rounds')].matches[i] IN
                /\ match.player1_national_id = tied[2 * i - 1]
                /\ match.player2_national_id = tied[2 * i]]_vars

\* the ranking without the participants of the first n pairs returned
UnpairedAfter(n) ==
    SelectSeq(get_current_rankings,
              LAMBDA k : \A i \in 1..n : k # pairs[i][1] /\ k # pairs[i][2])

\* C22: in the Swiss branch each pair is formed greedily from the ranking:
\* the highest-ranked participant still unpaired is paired with the nearest
\* lower-ranked unpaired participant it has met in no match of the history;
\* if it has met all of them, it is paired with the first one remaining
\* instead of failing.
C22_SwissPairsAreGreedy ==
    SwissPairsReturned
    => /\ 2 * Len(pairs) = Len(players)
       /\ \A i \in 1..Len(pairs) :
            LET unpaired == UnpairedAfter(i - 1)
                rest == Tail(unpaired)
                fresh == {j \in 1..Len(rest) :
                            ~PlayedBefore(pairs[i][1], rest[j])}
            IN /\ pairs[i][1] = Head(unpaired)
               /\ IF fresh = {} THEN pairs[i][2] = Head(rest)
                  ELSE \E j \in fresh : /\ pairs[i][2] = rest[j]
                                        /\ \A n \in fresh : j <= n

\* a roster of two after their match: the forced rematch is returned
C22_Witness ==
    /\ SwissPairsReturned
    /\ Len(players) = 2
    /\ Len(pairs) = 1
    /\ Range(players) = {pairs[1][1], pairs[1][2]}
    /\ PlayedBefore(pairs[1][1], pairs[1][2])

----------------------------------------------------------------------------
(* models/tournament.py: reset and recomputation of the ledger *)

\* Tournament.reset_player_score
ResetPlayerScore(k) ==
    /\ player_scores' = IF k \in DOMAIN player_scores
                        THEN [player_scores EXCEPT ![k] = 0]
                        ELSE player_scores
    /\ last' = Call("reset_player_score", TRUE, k, "-", 0, 0, 0, 0)
    /\ UNCHANGED <<players, number_of_rounds, current_round, rounds,
                   _is_finished, now, pairs, returned>>

\* the finished matches of all rounds, in the order update_player_scores
\* visits them
AllFinishedMatches ==
    Extend([r \in 1..Len(rounds) |-> get_finished_matches(rounds[r])])

\* the two nested for loops of update_player_scores over those matches: the
\* outcome and the ledger when the loops end or add_score_to_player raises
RECURSIVE RecomputeLoop(_, _)
RecomputeLoop(scores, matches) ==
    IF matches = <<>> THEN [ok |-> TRUE, scores |-> scores]
    ELSE LET match == Head(matches)
             add1 == add_score_to_player(scores, match.player1_national_id,
                                         match.player1_score)
             add2 == add_score_to_player(add1.scores,
                                         match.player2_national_id,
                                         match.player2_score)
         IN IF ~add1.ok THEN add1
            ELSE IF ~add2.ok THEN add2
            ELSE RecomputeLoop(add2.scores, Tail(matches))

\* update_player_scores that does not reset the ledger first
update_player_scores_NoReset == RecomputeLoop(player_scores, AllFinishedMatches)

\* Tournament.update_player_scores: reset_all_scores, then the recomputation
update_player_scores ==
    RecomputeLoop([x \in DOMAIN player_scores |-> 0], AllFinishedMatches)

UpdatePlayerScores ==
    /\ player_scores' = update_player_scores.scores
    /\ last' = Call("update_player_scores", update_player_scores.ok,
                    "-", "-", 0, 0, 0, 0)
    /\ UNCHANGED <<players, number_of_rounds, current_round, rounds,
                   _is_finished, now, pairs, returned>>

\* Tournament.get_final_rankings: in a finished tournament the ledger is
\* recomputed before the ranking is read
GetFinalRankings ==
    /\ UNCHANGED <<players, number_of_rounds, current_round, rounds,
                   _is_finished, now, pairs>>
    /\ IF ~is_finished
       THEN /\ UNCHANGED player_scores
            /\ returned' = get_current_rankings
            /\ last' = Call("get_final_rankings", TRUE, "-", "-", 0, 0, 0, 0)
       ELSE /\ player_scores' = update_player_scores.scores
            /\ returned' = IF update_player_scores.ok
                           THEN get_current_rankings' ELSE returned
            /\ last' = Call("get_final_rankings", update_player_scores.ok,
                            "-", "-", 0, 0, 0, 0)

----------------------------------------------------------------------------
(* The tournament of two participants whose ledger is recomputed *)

\* results are recorded for any match, finished or not, so that the ledger
\* runs ahead of the matches; it is recomputed at any time
NextRepair ==
    \/ \E k \in MatchKeys : AddPlayer(k)
    \/ \E prs \in PairInputs : StartNextRound(prs)
    \/ \E r \in 1..MaxRounds, m \in 1..Cardinality(MatchKeys),
          res \in ResultInputs :
         RecordResult(r, m, res[1], res[2]) /\ WithinMaxLedger
    \/ \E r \in 1..MaxRounds : RoundEndRound(r)
    \/ UpdatePlayerScores

SpecRepair == Init /\ [][NextRepair]_vars

\* C23: after update_player_scores the ledger entry of every participant of
\* the roster is the sum of the participant's scores over the finished
\* matches of all rounds, unfinished matches counting for nothing, and a
\* second call right after it leaves the ledger as it is.
C23_UpdateRecomputesLedger ==
    [][/\ last'.op = "update_player_scores" => (last'.ok /\ ~LedgerMismatch')
       /\ (last.op = "update_player_scores"
           /\ last'.op = "update_player_scores")
            => player_scores' = player_scores]_vars

\* update_player_scores has just lowered an entry of the ledger to the
\* points of a finished match while another match is unfinished
C23_Witness ==
    /\ last.op = "update_player_scores" /\ last.ok
    /\ Len(rounds) = 2
    /\ rounds[1].matches[1].is_finished
    /\ ~rounds[2].matches[1].is_finished
    /\ \E k \in Range(players) : player_scores[k] = 2

----------------------------------------------------------------------------
(* Closed rounds *)

\* C24: a round, once closed, is immutable: after end_round has succeeded no
\* add_match, end_round or set_result call changes its match list, the
\* recorded scores of its matches, its closing time or its closed flag.
C24_ClosedRoundIsImmutable ==
    [][\A r \in 1..Len(rounds) :
         rounds[r].is_finished
         => /\ Len(rounds') >= r
            /\ rounds'[r].matches = rounds[r].matches
            /\ rounds'[r].end_time = rounds[r].end_time
            /\ rounds'[r].is_finished]_vars

\* a tournament driven by any caller, results being entered once per match
NextGuard ==
    \/ \E k \in MatchKeys : AddPlayer(k)
    \/ \E prs \in AnyPairLists : StartNextRound(prs)
    \/ \E r \in 1..MaxRounds, m \in 1..MaxMatches, res \in ResultInputs :
         EnterResult(r, m, res[1], res[2])
    \/ \E r \in 1..MaxRounds : RoundEndRound(r)
    \/ FinishTournament

SpecGuard == Init /\ [][NextGuard]_vars

\* C25: finished is terminal: once is_finished() is true it is true in every
\* later state, and every later start_next_round call fails, appends no
\* round and leaves current_round as it is.
C25_FinishedIsTerminal ==
    [][is_finished
        => /\ is_finished'
           /\ last'.op = "start_next_round"
                => (~last'.ok /\ rounds' = rounds
                    /\ current_round' = current_round)]_vars

\* start_next_round has just failed in a tournament that finished by the
\* closing of its last scheduled round, nobody having declared it finished
C25_Witness ==
    /\ last.op = "start_next_round" /\ ~last.ok
    /\ is_finished /\ ~_is_finished
    /\ current_round = number_of_rounds
    /\ Len(rounds) = number_of_rounds
    /\ rounds[Len(rounds)].matches # <<>>

----------------------------------------------------------------------------
(* The tournament of two participants with its ledger written, recomputed
   and read for the final ranking in any order *)

NextUpkeep ==
    \/ \E k \in MatchKeys : AddPlayer(k)
    \/ \E prs \in PairInputs : StartNextRound(prs)
    \/ \E r \in 1..MaxRounds, m \in 1..Cardinality(MatchKeys),
          res \in ResultInputs :
         EnterResult(r, m, res[1], res[2])
    \/ EndCurrentRound
    \/ \E k \in MatchKeys, points \in {0 - 1, 2} :
         AddScoreToPlayer(k, points) /\ WithinMaxLedger
    \/ FinishTournament
    \/ UpdatePlayerScores
    \/ GetFinalRankings

SpecUpkeep == Init /\ [][NextUpkeep]_vars

ResetPaths == {"reset_player_score", "reset_all_scores", "update_player_scores"}

\* C26: outside reset_player_score, reset_all_scores and update_player_scores
\* no operation of the tournament lowers a ledger entry: across every other
\* step the score of each participant of the roster is at least what it was.
C26_LedgerNeverDecreases ==
    [][last'.op \notin ResetPaths
        => \A k \in Range(players) \cap Range(players') :
             (k \in DOMAIN player_scores /\ k \in DOMAIN player_scores')
             => player_scores'[k] >= player_scores[k]]_vars

----------------------------------------------------------------------------
(* Serialization: to_dict and from_dict of Match, Round and Tournament *)

Match_to_dict(match) ==
    [player1_national_id |-> match.player1_national_id,
     player2_national_id |-> match.player2_national_id,
     player1_score |-> match.player1_score,
     player2_score |-> match.player2_score,
     is_finished |-> match.is_finished]

\* Match.from_dict: Match(...) may raise; the scores and the flag are then
\* taken from the dictionary
Match_from_dict(data) ==
    IF MatchInitRaises(data.player1_national_id, data.player2_national_id)
    THEN [ok |-> FALSE, match |-> <<>>]
    ELSE [ok |-> TRUE,
          match |-> <<[Match(data.player1_national_id,
                             data.player2_national_id)
                       EXCEPT !.player1_score = data.player1_score,
                              !.player2_score = data.player2_score,
                              !.is_finished = data.is_finished]>>]

Round_to_dict(round) ==
    [name |-> round.name,
     start_time |-> round.start_time,
     end_time |-> round.end_time,
     matches |-> [m \in 1..Len(round.matches) |->
                    Match_to_dict(round.matches[m])],
     is_finished |-> round.is_finished]

\* Round.from_dict leaving is_finished as Round.__init__ set it
Round_from_dict_ForgetsClosed(data, t) ==
    [Round(data.name, t)
     EXCEPT !.start_time = data.start_time,
            !.end_time = data.end_time,
            !.matches = Extend([m \in 1..Len(data.matches) |->
                                  Match_from_dict(data.matches[m]).match])]

\* Round.from_dict, Round.__init__ having read the clock at t: the matches
\* whose Match.from_dict raises are left out
Round_from_dict(data, t) ==
    [Round(data.name, t)
     EXCEPT !.start_time = data.start_time,
            !.end_time = data.end_time,
            !.is_finished = data.is_finished,
            !.matches = Extend([m \in 1..Len(data.matches) |->
                                  Match_from_dict(data.matches[m]).match])]

Tournament_to_dict ==
    [number_of_rounds |-> number_of_rounds,
     current_round |-> current_round,
     rounds |-> [r \in 1..Len(rounds) |-> Round_to_dict(rounds[r])],
     players |-> [i \in 1..Len(players) |-> [national_id |-> players[i]]],
     player_scores |-> player_scores,
     is_finished |-> _is_finished]

\* the clock after n more readings
ClockAfter(n) == IF now + n < MaxTime THEN now + n ELSE MaxTime

\* Tournament.from_dict(self.to_dict(), players_lookup), the tournament
\* built taking the place of this one; players_lookup holds every known
\* participant but the one named absent
RoundTrip(absent) ==
    LET data == Tournament_to_dict
        players_lookup == Keys \ {absent}
        restored == SelectSeq([i \in 1..Len(data.players) |->
                                 data.players[i].national_id],
                              LAMBDA id : id \in players_lookup)
    IN /\ number_of_rounds' = data.number_of_rounds
       /\ current_round' = data.current_round
       /\ _is_finished' = data.is_finished
       /\ players' = restored
       /\ player_scores' =
            [x \in DOMAIN data.player_scores \cup Range(restored) |->
               IF x \in DOMAIN data.player_scores
               THEN data.player_scores[x] ELSE 0]
       /\ rounds' = [r \in 1..Len(data.rounds) |->
                       Round_from_dict(data.rounds[r], ClockAfter(r))]
       /\ now' = ClockAfter(Len(data.rounds))
       /\ last' = Call("from_dict", TRUE, absent, "-", 0, 0, 0, 0)
       /\ UNCHANGED <<pairs, returned>>

\* lists of pairs handed to start_next_round before a save: one pair, a
\* participant paired with itself, two pairs
StorePairLists ==
    {<< <<"A", "B">> >>,
     << <<"A", "A">> >>,
     << <<"A", "B">>, <<"B", "A">> >>}

\* results entered before a save: a win, a draw, and 1-1 in full points,
\* which set_result rejects
StoreResults == {<<2, 0>>, <<1, 1>>, <<2, 2>>}

NextStore ==
    \/ \E k \in MatchKeys : AddPlayer(k)
    \/ \E prs \in StorePairLists : StartNextRound(prs)
    \/ \E r \in 1..MaxRounds, m \in 1..MaxMatches, res \in StoreResults :
         EnterResult(r, m, res[1], res[2])
    \/ EndCurrentRound
    \/ FinishTournament
    \/ \E absent \in MatchKeys \cup {"-"} : RoundTrip(absent)

SpecStore == Init /\ [][NextStore]_vars

\* C27: for a lookup holding every participant of the roster the tournament
\* rebuilt by from_dict from to_dict has the same roster in the same order,
\* the same ledger, current_round and finished flag, and the same rounds in
\* the same order with the same matches, scores and flags.
C27_RoundTripPreservesState ==
    [][(last'.op = "from_dict" /\ last'.key \notin Range(players))
        => /\ players' = players
           /\ player_scores' = player_scores
           /\ number_of_rounds' = number_of_rounds
           /\ current_round' = current_round
           /\ _is_finished' = _is_finished
           /\ rounds' = rounds]_vars

\* a tournament declared finished, with a closed round of one finished match
\* and an open round, has just been rebuilt from its dictionary
C27_Witness ==
    /\ last.op = "from_dict" /\ last.key \notin Range(players)
    /\ _is_finished
    /\ Len(players) = 2
    /\ Len(rounds) = 2
    /\ rounds[1].is_finished /\ Len(rounds[1].matches) = 1
    /\ rounds[1].matches[1].player1_score = 2
    /\ ~rounds[2].is_finished /\ rounds[2].end_time = <<>>
    /\ player_scores["A"] + player_scores["B"] = 2

----------------------------------------------------------------------------
(* The ranking and tie queries called on a tournament whose results are
   entered on the matches only *)

\* a query that assigns nothing and returns value
Query(op, value) ==
    /\ returned' = value
    /\ last' = Call(op, TRUE, "-", "-", 0, 0, 0, 0)
    /\ UNCHANGED <<players, player_scores, number_of_rounds, current_round,
                   rounds, _is_finished, now, pairs>>

HasTieForFirstPlace ==
    Query("has_tie_for_first_place", <<has_tie_for_first_place>>)

GetTiedPlayersForFirst ==
    Query("get_tied_players_for_first", get_tied_players_for_first)

NeedsTiebreakerRound ==
    Query("needs_tiebreaker_round", <<needs_tiebreaker_round>>)

CanCreateTiebreakerPairs ==
    Query("can_create_tiebreaker_pairs", <<can_create_tiebreaker_pairs>>)

\* a result is set on a match of the round in progress, the ledger left as
\* it is
SetResultOnly(m, s1, s2) ==
    /\ Len(rounds) > 0
    /\ ~rounds[Len(rounds)].is_finished
    /\ MatchSetResult(Len(rounds), m, s1, s2)

NextReadOnly ==
    \/ \E k \in MatchKeys : AddPlayer(k)
    \/ \E prs \in PairInputs : StartNextRound(prs)
    \/ \E m \in 1..Cardinality(MatchKeys), res \in ResultInputs :
         SetResultOnly(m, res[1], res[2])
    \/ EndCurrentRound
    \/ GetCurrentRankings
    \/ GetFinalRankings
    \/ HasTieForFirstPlace
    \/ GetTiedPlayersForFirst
    \/ NeedsTiebreakerRound
    \/ CanCreateTiebreakerPairs

SpecReadOnly == Init /\ [][NextReadOnly]_vars

RankingAndTieQueries ==
    {"get_current_rankings", "get_final_rankings", "has_tie_for_first_place",
     "get_tied_players_for_first", "needs_tiebreaker_round",
     "can_create_tiebreaker_pairs"}

\* C28: the ranking and tie queries are read-only: each of them leaves the
\* ledger, the roster, the rounds and the finished flag as they are, in
\* finished tournaments whose ledger was not updated with the results too.
C28_QueriesAreReadOnly ==
    [][last'.op \in RankingAndTieQueries
        => /\ player_scores' = player_scores
           /\ players' = players
           /\ rounds' = rounds
           /\ _is_finished' = _is_finished]_vars

----------------------------------------------------------------------------
(* Open rounds *)

\* C29: at most one round is open and it is the last one: every round but
\* the last is closed, and a closed round never becomes open again.
C29_OnlyLastRoundOpen ==
    /\ [](\A r \in 1..(Len(rounds) - 1) : rounds[r].is_finished)
    /\ [][\A r \in 1..Len(rounds) :
            rounds[r].is_finished
            => (Len(rounds') >= r /\ rounds'[r].is_finished)]_vars

\* the second round is open, one result short, behind a closed first round
\* on which end_round has just been called once more
C29_Witness ==
    /\ Len(rounds) = 2
    /\ rounds[1].is_finished
    /\ ~rounds[2].is_finished
    /\ Len(rounds[2].matches) = 2
    /\ rounds[2].matches[1].is_finished /\ ~rounds[2].matches[2].is_finished
    /\ last.op = "end_round" /\ last.r = 1 /\ last.ok

----------------------------------------------------------------------------
(* A tournament played to its end: rounds are started with the pairs of the
   pairing helper, results entered and rounds closed *)

\* the rosters registered before play starts
InitPlay ==
    /\ players \in {<<"A", "B">>, <<"A", "B", "C", "D">>}
    /\ player_scores = [k \in Range(players) |-> 0]
    /\ number_of_rounds \in 1..MaxRounds
    /\ current_round = 0
    /\ rounds = <<>>
    /\ _is_finished = FALSE
    /\ now = 0
    /\ pairs = <<>>
    /\ returned = <<>>
    /\ last = NoCall

\* the results set_result accepts: 1-0, 0-1 and the draw
GameResults == {res \in ResultInputs : set_result(Match("A", "B"),
                                                  res[1], res[2]).ok}

StartWithEnginePairs == \E prs \in PairInputs : StartNextRound(prs)

EnterGameResult ==
    \E r \in 1..MaxRounds, m \in 1..Cardinality(Keys), res \in GameResults :
        EnterResult(r, m, res[1], res[2])

EnterRejectedResult ==
    \E r \in 1..MaxRounds, m \in 1..Cardinality(Keys),
       res \in ResultInputs \ GameResults :
        EnterResult(r, m, res[1], res[2])

NextPlay ==
    \/ StartWithEnginePairs
    \/ EnterGameResult
    \/ EnterRejectedResult
    \/ EndCurrentRound

\* the next round can be started: the condition start_next_round tests
\* before it raises
StartDue == can_start_next_round

\* Weak fairness on the three steps of play.  For the start of a round the
\* condition is written out, WF_vars(A) being []<>~ENABLED <<A>>_vars \/
\* []<><<A>>_vars, with the test of start_next_round standing for the
\* enabling of a start that succeeds.
SpecPlay ==
    /\ InitPlay /\ [][NextPlay]_vars
    /\ WF_vars(EnterGameResult)
    /\ WF_vars(EndCurrentRound)
    /\ ([]<>~StartDue) \/ ([]<><<StartWithEnginePairs /\ last'.ok>>_vars)

\* a start that passes the test of start_next_round has pairs to take and
\* a clock to read
StartHasInputs == StartDue => PairInputs # {} /\ ClockReadings # {}

\* a start that passes the test of start_next_round succeeds and appends
\* the round
StartSucceeds ==
    StartWithEnginePairs /\ StartDue =>
        /\ last'.ok
        /\ Len(rounds') = Len(rounds) + 1
        /\ current_round' = current_round + 1

\* one of the three steps of play can be taken and succeeds
PlayCanGoOn ==
    \/ ENABLED (EnterGameResult /\ last'.ok)
    \/ ENABLED (EndCurrentRound /\ last'.ok)
    \/ StartDue

\* C30: a tournament with an even roster of at least 2 participants never
\* gets stuck before it is finished: while is_finished() is false, a result
\* can be recorded for an unfinished match, or the last round can be closed,
\* or the next round can be started with the pairs of the pairing helper;
\* under weak fairness on these three steps it reaches is_finished() after
\* exactly number_of_rounds rounds.
C30_PlayReachesTheEnd ==
    /\ [](~is_finished => PlayCanGoOn)
    /\ [](StartHasInputs)
    /\ [][StartSucceeds]_vars
    /\ [](is_finished => Len(rounds) = number_of_rounds)
    /\ <>is_finished

\* a tournament of four finished by the closing of its second round
C30_Witness ==
    /\ Len(players) = 4
    /\ number_of_rounds = 2
    /\ is_finished /\ ~_is_finished
    /\ Len(rounds) = 2
    /\ last.op = "end_round" /\ last.ok

====
